---- MODULE Spec2Model ----
(***************************************************************************)
(* Webhook delivery subsystem of the WhatsApp web connector:               *)
(* EventManager (listener registry + event dispatcher), the HTTP routes    *)
(* that drive the registry, and the client wrapper that starts dispatch    *)
(* rounds for inbound messages.                                            *)
(*                                                                         *)
(* Execution model: Node.js event loop.  One action of this module is one  *)
(* macrotask together with the microtasks it queues (promise               *)
(* continuations run to completion before the next macrotask starts).      *)
(***************************************************************************)
EXTENDS Integers, Sequences, FiniteSets, Bags, TLC

\* ---------------------------------------------------------------- bounds
MaxIds == 2          \* listeners ever created (cap on nextId)
MaxRounds == 2       \* dispatch rounds that may be in flight at once
MaxMedia == 2        \* media ids ever generated (cap on nextFile)
MaxInbound == 2      \* inbound media messages being downloaded at once
MaxDeletes == 2      \* deleteFile calls of the send path in flight at once
MaxMessages == 3     \* inbound messages converted (cap on arrived)
MaxSends == 2        \* send requests waiting for the chat client at once

\* ------------------------------------------------------------- constants
FailureThreshold == 3

Ids == 0 .. (MaxIds - 1)

\* URL strings a subscriber may post; registerWebhook accepts any truthy value
Urls == {"http://a/hook", "http://b/hook", "not a url"}
NoUrl == "-"

\* new Request(url, ...) parses the url and throws TypeError when it does not
\* parse as an absolute URL
ValidUrl(u) == u \in {"http://a/hook", "http://b/hook"}

\* how a fetch() that was issued can settle on its own; "aborted" is what the
\* deadline makes of it
FetchOutcomes == {"success", "http_error", "network_error"}

VARIABLES
    listeners,       \* EventManager.listeners: sequence of listener objects (by id)
    nextId,          \* EventManager.nextId
    url,             \* Listener.url of every referenced listener object
    failedAttempts,  \* Listener.failedAttempts of every referenced listener object
    inflight,        \* bag of the dispatchEvent calls suspended at `await
                     \* Promise.all`; each is [pending: the listeners whose
                     \* notifyListener promise is not settled, timer: its timeout]
    crashed,         \* the process terminated on an unhandled rejection
    lastRound,       \* history: how the dispatchEvent call that returned last ended
    streak,          \* history: most recent consecutive network/abort failures
    everPruned,      \* history: filterInvalidListeners has dropped a listener
    everRecovered,   \* history: a success has overwritten a counter value of 2
    mediaCache,      \* MediaHandler._mediaCache: file id -> { path, updated };
                     \* the time stamp is kept as idle = Date.now() - updated
    disk,            \* the paths below the media directory that name a file
    nextFile,        \* number of file ids generated so far
    mv,              \* per file id: the move started by file.mv, while it
                     \* runs ("pending") and after it failed ("failed")
    deletes,         \* bag of the deleteFile calls suspended at `await unlink`
    sweep,           \* the deleteOldFiles call in progress, if any
    obtained,        \* history: per file id, the send requests that read its content
    downloads,       \* bag of the handleMessage calls suspended inside
                     \* downloadMessageMedia: [phase, id of the file being written]
    lastEvent,       \* history: the media field of the event handed to
                     \* dispatchEvent last, and the phase its call was in
    arrived,         \* history: inbound messages converted by handleMessage
    dispatched,      \* history: dispatchEvent calls made by handleMessage
    contacts,        \* MessagingCache.contacts: key -> age of the entry
    chats,           \* MessagingCache.chats: key -> age of the entry
    fetched,         \* history: per kind and key, the time since the upstream
                     \* client answered a lookup for it
    lastConv,        \* history: what the last parseWhatsAppMessage call asked upstream
    ready,           \* WhatsApp._ready
    sends,           \* bag of the Server.sendMessage calls suspended at
                     \* `await this.wa.sendMessage(...)`: [id of their media]
    lastSend,        \* history: the request answered last and its status
    webhookId,       \* n8n trigger node: getWorkflowStaticData('node').webhookId
    lastHook         \* history: the webhook method of the trigger node that
                     \* ran last, what the server did and what it returned

eventVars == <<listeners, nextId, url, failedAttempts, inflight, lastRound,
               streak, everPruned, everRecovered>>

mediaVars == <<mediaCache, disk, nextFile, mv, deletes, sweep, obtained>>

inboundVars == <<downloads, lastEvent, arrived, dispatched>>

cacheVars == <<contacts, chats, fetched, lastConv>>

sendVars == <<ready, sends, lastSend>>

triggerVars == <<webhookId, lastHook>>

vars == <<listeners, nextId, url, failedAttempts, inflight, crashed,
          lastRound, streak, everPruned, everRecovered,
          mediaCache, disk, nextFile, mv, deletes, sweep, obtained,
          downloads, lastEvent, arrived, dispatched,
          contacts, chats, fetched, lastConv, ready, sends, lastSend,
          webhookId, lastHook>>

Range(s) == {s[i] : i \in 1 .. Len(s)}

Min(a, b) == IF a < b THEN a ELSE b

\* ------------------------------------------------------------- registry
\* variant: the comparison loop skips the oldest listener
hasListener_rest(u) == \E i \in 2 .. Len(listeners) : url[listeners[i]] = u

hasListener(u) == \E i \in 1 .. Len(listeners) : url[listeners[i]] = u

\* variant: the url is accepted whether or not it is already registered
registerWebhookStatus_accept(u) == 201

\* Server.registerWebhook: the status it answers with (a missing url, 400, is
\* not among Urls)
registerWebhookStatus(u) == IF hasListener(u) THEN 409 ELSE 201

\* variant: the id is taken from the length of the list
addListener_length(u) == IF hasListener(u) THEN -1 ELSE Len(listeners)

\* variant: the lowest id that no listed listener has is handed out again
addListener_lowest(u) ==
    IF hasListener(u) \/ Ids \subseteq Range(listeners) THEN -1
    ELSE CHOOSE i \in Ids \ Range(listeners) :
             \A j \in Ids \ Range(listeners) : i <= j

\* EventManager.addListener: the value it returns, -1 or the id it assigned
addListener(u) == IF hasListener(u) THEN -1 ELSE nextId

\* variant: the listeners up to the given id are dropped with it
removeListener_upTo(ls, id) == SelectSeq(ls, LAMBDA l : l > id)

\* EventManager.removeListener
removeListener(ls, id) == SelectSeq(ls, LAMBDA l : l # id)

\* a path parameter that parseInt cannot read
NaN == -1

PathIds == Ids \cup {NaN}

\* Server.deleteWebhook: the status it answers with
deleteWebhookStatus(id) == IF id = NaN THEN 400 ELSE 200

\* variant: the newest listener comes first
getListeners_newestFirst ==
    [i \in 1 .. Len(listeners) |-> listeners[Len(listeners) + 1 - i]]

\* EventManager.getListeners
getListeners == listeners

\* variant: the threshold comparison admits a counter equal to the threshold
filterInvalidListeners_lenient(ls, fa) ==
    SelectSeq(ls, LAMBDA l : fa[l] <= FailureThreshold)

\* variant: listeners are dropped one failure early
filterInvalidListeners_early(ls, fa) ==
    SelectSeq(ls, LAMBDA l : fa[l] < FailureThreshold - 1)

filterInvalidListeners(ls, fa) ==
    SelectSeq(ls, LAMBDA l : fa[l] < FailureThreshold)

\* `await fetch(...)` resumes normally for any HTTP response, whatever its
\* status; it throws on a network error or on abort
fetchResolves(o) == o \in {"success", "http_error"}

\* variant: a success takes one failure off instead of clearing the counter
recordOutcome_decrement(fa, l, o) ==
    [fa EXCEPT ![l] = IF fetchResolves(o) THEN (IF @ > 0 THEN @ - 1 ELSE 0)
                      ELSE @ + 1]

\* variant: the outcome is recorded on the listener found in the list, the
\* oldest one when the listener of the attempt is no longer listed
recordOutcome_lookup(fa, l, o) ==
    LET t == IF l \in Range(listeners) \/ listeners = <<>> THEN l ELSE listeners[1]
    IN [fa EXCEPT ![t] = IF fetchResolves(o) THEN 0 ELSE @ + 1]

\* notifyListener, after the await: lines 138 / 141
recordOutcome(fa, l, o) ==
    [fa EXCEPT ![l] = IF fetchResolves(o) THEN 0 ELSE @ + 1]

\* notifyListener, up to the await: the Request constructor runs outside the
\* try block, so a url that does not parse rejects the promise
notifyListenerStart(l) == IF ValidUrl(url[l]) THEN "pending" ELSE "threw"

\* variant: the join gives up one promise early
allSettled_early(pend) == Cardinality(pend) <= 1

\* Promise.all over the notifyListener promises resolves when none is pending
allSettled(pend) == pend = {}

\* the dispatchEvent calls in flight
Frames == BagToSet(inflight)

\* the start of a round is not recorded
NotRecorded == -1

\* history: atStart, where it is recorded, is the value nextId had when the
\* call took its snapshot of the list, so that the listeners added since have
\* the ids from atStart on
Frame(pend, atStart) == [pending |-> pend, timer |-> "armed", atStart |-> atStart]

OneFrame(f) == SetToBag({f})

\* a listener object is referenced by the list and by the closure of every
\* notifyListener call that has not returned; an unreferenced one is garbage
Referenced(l, ls, infl) ==
    \/ \E i \in 1 .. Len(ls) : ls[i] = l
    \/ \E f \in BagToSet(infl) : l \in f.pending

kept(f, dflt, ls, infl) ==
    [l \in Ids |-> IF Referenced(l, ls, infl) THEN f[l] ELSE dflt]

\* history bookkeeping shared by the actions that record an outcome
streakAfter(st, l, o) ==
    [st EXCEPT ![l] = IF o \in {"network_error", "aborted"}
                      THEN Min(@ + 1, FailureThreshold) ELSE 0]

everPrunedAfter(ls2) == everPruned \/ Len(ls2) < Len(listeners)

NoRound == [how |-> "none", pending |-> {}, timer |-> "none", prunes |-> 0]

\* ---------------------------------------------------------- media store
MediaIds == 0 .. (MaxMedia - 1)

\* config.fileClearInterval, the unit of the clock
FileClearInterval == 1

\* idle times above the interval are all alike to deleteOldFiles
MaxIdle == FileClearInterval + 1

\* what an upload request carries in req.files.media: nothing, or a file with
\* its declared MIME type
NoFile == "no file"

Uploads == {NoFile, "image/png", "application/x-bogus"}

\* mimetypes.json: the supported-type table
SupportedMime(m) == m \in {"image/png"}

NoRecord == [dir |-> "none", idle |-> 0]

\* { path, updated: Date.now() }: a record that was touched just now
Record(dir) == [dir |-> dir, idle |-> 0]

\* `${directory}/${fileId}.${extension}`: the path of a file id in a directory
NoPath == [dir |-> "none", file |-> -1]

Path(dir, id) == [dir |-> dir, file |-> id]

hasRecord(id) == mediaCache[id] # NoRecord

\* MediaHandler.getFilePath: the recorded path, or undefined
getFilePath(id) ==
    IF hasRecord(id) THEN Path(mediaCache[id].dir, id) ELSE NoPath

\* variant: an id that has no record is handed out again
generateFileId_reuse ==
    IF \E i \in MediaIds : i < nextFile /\ ~hasRecord(i)
    THEN CHOOSE i \in MediaIds :
             /\ i < nextFile /\ ~hasRecord(i)
             /\ \A j \in MediaIds : (j < nextFile /\ ~hasRecord(j)) => i <= j
    ELSE nextFile

\* MediaHandler.generateFileId: crypto.randomUUID() never repeats a value, so
\* the ids are numbered in the order they are generated
generateFileId == nextFile

\* how the mkdirSync of getOutgoingMediaDirectory can go when the directory
\* is missing
MkdirOutcomes == {"ok", "error"}

Unsupported == "Unsupported MIME type"

\* saveUploadedMedia up to file.mv: the error it throws, or "saved";
\* getFileExtension (line 131) runs before getOutgoingMediaDirectory (line 133)
saveUploadedMedia(file, k) ==
    IF ~SupportedMime(file) THEN Unsupported
    ELSE IF k = "error" THEN "mkdir failed"
    ELSE "saved"

\* variant: the catch block does not tell the unsupported type apart
uploadMediaStatus_all500(file, k) ==
    IF file = NoFile THEN 400
    ELSE IF saveUploadedMedia(file, k) # "saved" THEN 500
    ELSE 201

\* Server.uploadMedia: the status it answers with
uploadMediaStatus(file, k) ==
    IF file = NoFile THEN 400
    ELSE IF saveUploadedMedia(file, k) = Unsupported THEN 400
    ELSE IF saveUploadedMedia(file, k) # "saved" THEN 500
    ELSE 201

\* a deleteFile call suspended at `await fs.promises.unlink(file.path)`:
\* "queued" until the thread pool has run the unlink, "settled" afterwards
DeleteOp(id, path, phase) == [id |-> id, path |-> path, phase |-> phase]

Deletes == BagToSet(deletes)

OneDelete(d) == SetToBag({d})

\* how an unlink run by the thread pool can end: the file is removed, or the
\* call fails and leaves the directory as it is
UnlinkOutcomes == {"removed", "error"}

diskAfterUnlink(path, o) ==
    IF o = "removed" THEN disk \ {path} ELSE disk

\* deleteOldFiles: not running, or suspended at its `await unlink` for the
\* head of todo, the entries of the snapshot that are still to be evicted
NoSweep == [phase |-> "idle", todo |-> <<>>]

\* Object.entries(this._mediaCache): the entries in insertion order
RECURSIVE entriesFrom(_)
entriesFrom(i) ==
    IF i >= MaxMedia THEN <<>>
    ELSE (IF hasRecord(i) THEN <<[id |-> i, path |-> getFilePath(i),
                                  idle |-> mediaCache[i].idle]>>
          ELSE <<>>) \o entriesFrom(i + 1)

\* variant: a record idle for exactly the interval is evicted as well
isOld_inclusive(idle) == idle >= FileClearInterval

\* deleteOldFiles, line 43: entries with now - updated <= interval are skipped
isOld(idle) == ~(idle <= FileClearInterval)

\* ------------------------------------------------- inbound media messages
\* a handleMessage call inside `await this.media.downloadMessageMedia(msg)`:
\* "fetching" at `await msg.downloadMedia()`, "writing" at `await writeFile`
\* until the thread pool has run the write, then "written" or "failed"
Download(phase, id) == [phase |-> phase, id |-> id]

Downloads == BagToSet(downloads)

OneDownload(c) == SetToBag({c})

NoEvent == [saved |-> FALSE, file |-> -1, phase |-> "none"]

\* no send request was answered yet
NoSend == [id |-> -1, status |-> 0]

\* a Server.sendMessage call suspended at `await this.wa.sendMessage(...)`
Sends == BagToSet(sends)

OneSend(id) == SetToBag({[id |-> id]})

\* how wa.sendMessage can end: the message was sent, the chat id was not
\* accepted ('wid error'), or anything else went wrong
SendOutcomes == {"sent", "wid_error", "error"}

\* Server.sendMessage, lines 224-239: the status after wa.sendMessage
sendMessageStatus(o) ==
    IF o = "sent" THEN 201 ELSE IF o = "wid_error" THEN 404 ELSE 500

\* ------------------------------------------------- n8n trigger node
\* this.getNodeWebhookUrl('default')
NodeUrl == "http://a/hook"

\* webhookData.webhookId === undefined
Undefined == -2

NoHook == [op |-> "none", server |-> "none", result |-> "none"]

Hook(op, server, result) == [op |-> op, server |-> server, result |-> result]

\* what the DELETE request of the trigger node can meet: the server answers
\* { success: true }, or the request fails
DeleteAnswers == {"success", "unreachable"}

\* WhatsAppWebTrigger.webhookMethods.default.delete: what it returns
webhookDeleteResult(stored, answer) ==
    IF stored = Undefined THEN "true"
    ELSE IF answer = "unreachable" THEN "throws"
    ELSE IF answer # "success" THEN "false"
    ELSE "false"

\* the event of a message without media: no media field is filled in
PlainEvent == [saved |-> FALSE, file |-> -1, phase |-> "no_media"]

\* variant: dispatchEvent is called at the end of the try block, so only after
\* a download that succeeded
dispatchesAfterDownload_onlySaved(c) == IF c.phase = "written" THEN 1 ELSE 0

\* handleMessage, lines 93-101: the finally block calls dispatchEvent once,
\* whether downloadMessageMedia returned or threw
dispatchesAfterDownload(c) == 1

\* variant: the saved flag is set in the finally block, on both paths
mediaOf_savedAlways(c) == [saved |-> TRUE, file |-> c.id]

\* handleMessage, lines 86-98: the media field of the event when the call c
\* reaches dispatchEvent: filled in after a download that returned, left at
\* { saved: false, fileLocation: "" } after one that threw
mediaOf(c) ==
    IF c.phase = "written" THEN [saved |-> TRUE, file |-> c.id]
    ELSE [saved |-> FALSE, file |-> -1]

\* how `await msg.downloadMedia()` and the lines up to writeFile can go
FetchMediaOutcomes == {"data", "no_data", "bad_mime"}

WriteOutcomes == {"written", "failed"}

\* variant: the record is registered before the outcome of the write is known
cacheAfterDownload_eager(c) ==
    [mediaCache EXCEPT ![c.id] = Record("incoming")]

\* downloadMessageMedia, line 161: reached only when `await writeFile` returned
cacheAfterDownload(c) ==
    IF c.phase = "written"
    THEN [mediaCache EXCEPT ![c.id] = Record("incoming")]
    ELSE mediaCache

\* ------------------------------------------------- contact and chat cache
\* the keys messages come with (msg.author || msg.from, msg.from / msg.to)
Keys == {"k1", "k2"}

\* NodeCache({ stdTTL: 120 }), the unit of the cache clock
StdTTL == 1

MaxAge == StdTTL + 1

Absent == -1

Kinds == {"contact", "chat"}

NoConv == [contact |-> "none", chat |-> "none",
           contactUpstream |-> FALSE, chatUpstream |-> FALSE]

\* NodeCache.get: the entry, unless there is none or its TTL has run out
cacheGet(cache, k) ==
    IF cache[k] # Absent /\ cache[k] <= StdTTL THEN "hit" ELSE "miss"

\* the ages of a cache one unit of time later
older(cache) ==
    [k \in Keys |-> IF cache[k] = Absent THEN Absent ELSE Min(cache[k] + 1, MaxAge)]

\* what the checkperiod timer of NodeCache leaves of a cache
unexpired(cache) ==
    [k \in Keys |-> IF cache[k] # Absent /\ cache[k] > StdTTL THEN Absent ELSE cache[k]]

Init ==
    /\ listeners = <<>>
    /\ nextId = 0
    /\ url = [l \in Ids |-> NoUrl]
    /\ failedAttempts = [l \in Ids |-> 0]
    /\ inflight = EmptyBag
    /\ crashed = FALSE
    /\ lastRound = NoRound
    /\ streak = [l \in Ids |-> 0]
    /\ everPruned = FALSE
    /\ everRecovered = FALSE
    /\ mediaCache = [i \in MediaIds |-> NoRecord]
    /\ disk = {}
    /\ nextFile = 0
    /\ mv = [i \in MediaIds |-> "none"]
    /\ deletes = EmptyBag
    /\ sweep = NoSweep
    /\ obtained = [i \in MediaIds |-> 0]
    /\ downloads = EmptyBag
    /\ lastEvent = NoEvent
    /\ contacts = [k \in Keys |-> Absent]
    /\ chats = [k \in Keys |-> Absent]
    /\ fetched = [kind \in Kinds |-> [k \in Keys |-> Absent]]
    /\ lastConv = NoConv
    /\ arrived = 0
    /\ dispatched = 0
    /\ ready = FALSE
    /\ sends = EmptyBag
    /\ lastSend = NoSend
    /\ webhookId = Undefined
    /\ lastHook = NoHook

\* POST /webhook/subscribe -> Server.registerWebhook -> EventManager.addListener
registerWebhookRequest(u) ==
    /\ IF registerWebhookStatus(u) = 409
       THEN UNCHANGED <<listeners, nextId, url, failedAttempts>>
       ELSE /\ nextId < MaxIds
            /\ \E id \in {addListener(u)} :
                  IF id = -1
                  THEN UNCHANGED <<listeners, nextId, url, failedAttempts>>
                  ELSE /\ listeners' = Append(listeners, id)
                       /\ url' = [url EXCEPT ![id] = u]
                       /\ failedAttempts' = [failedAttempts EXCEPT ![id] = 0]
                       /\ nextId' = nextId + 1
    /\ UNCHANGED <<inflight, crashed, lastRound, streak, everPruned, everRecovered>>

\* the request sent by any client but the trigger node
registerWebhook(u) ==
    /\ ~crashed
    /\ registerWebhookRequest(u)
    /\ UNCHANGED mediaVars
    /\ UNCHANGED <<inboundVars, cacheVars, sendVars, triggerVars>>

\* DELETE /webhook/:id -> Server.deleteWebhook -> EventManager.removeListener
deleteWebhookRequest(id) ==
    /\ \E ls2 \in {IF deleteWebhookStatus(id) = 400 THEN listeners
                    ELSE removeListener(listeners, id)} :
          /\ listeners' = ls2
          /\ url' = kept(url, NoUrl, ls2, inflight)
          /\ failedAttempts' = kept(failedAttempts, 0, ls2, inflight)
          /\ streak' = kept(streak, 0, ls2, inflight)
    /\ UNCHANGED <<nextId, inflight, crashed, lastRound, everPruned, everRecovered>>

\* the request sent by any client but the trigger node
deleteWebhook(id) ==
    /\ ~crashed
    /\ deleteWebhookRequest(id)
    /\ UNCHANGED mediaVars
    /\ UNCHANGED <<inboundVars, cacheVars, sendVars, triggerVars>>

\* variant: listeners that already failed are left out of the round
notifyAll_skipFailed(ls) ==
    [l \in Ids |-> IF l \in Range(ls) /\ failedAttempts[l] = 0
                   THEN notifyListenerStart(l) ELSE "none"]

\* this.listeners.map(listener => this.notifyListener(listener, ...)): the
\* promise of every listener in the list when the round starts
notifyAll(ls) ==
    [l \in Ids |-> IF l \in Range(ls) THEN notifyListenerStart(l) ELSE "none"]

\* dispatchEvent from `await Promise.all(...)` on, for the call that leaves the
\* calls rest in flight, started at next id atStart and now waits for pend,
\* with counters fa: while a promise is pending the call stays suspended; once
\* all are fulfilled the finally-block clears the timer and
\* filterInvalidListeners runs
resumeRound(rest, pend, atStart, fa, st) ==
    LET over == allSettled(pend)
    IN \E ls2 \in {IF over THEN filterInvalidListeners(listeners, fa) ELSE listeners},
          infl2 \in {IF over THEN rest ELSE rest (+) OneFrame(Frame(pend, atStart))} :
          /\ listeners' = ls2
          /\ inflight' = infl2
          /\ failedAttempts' = kept(fa, 0, ls2, infl2)
          /\ url' = kept(url, NoUrl, ls2, infl2)
          /\ streak' = kept(st, 0, ls2, infl2)
          /\ everPruned' = everPrunedAfter(ls2)
          /\ lastRound' = IF over
                          THEN [how |-> "resolved", pending |-> pend,
                                timer |-> "cleared", prunes |-> 1]
                          ELSE lastRound

\* WhatsApp.handleMessage: an inbound message calls events.dispatchEvent(event)
\* without awaiting or catching its promise; atStart is what the history of
\* the round records as its start
dispatchEvent(atStart) ==
    /\ ~crashed
    /\ BagCardinality(inflight) < MaxRounds
    /\ LET att == notifyAll(listeners)
           pend == {l \in Ids : att[l] = "pending"}
       IN IF \E l \in Ids : att[l] = "threw"
          THEN \* Promise.all rejects: finally clears the timer, the rejection
               \* leaves dispatchEvent and nobody handles it
               /\ lastRound' = [how |-> "rejected", pending |-> pend,
                                timer |-> "cleared", prunes |-> 0]
               /\ crashed' = TRUE
               /\ UNCHANGED <<listeners, url, failedAttempts, inflight, streak,
                              everPruned>>
          ELSE /\ resumeRound(inflight, pend, atStart, failedAttempts, streak)
               /\ UNCHANGED crashed
    /\ UNCHANGED <<nextId, everRecovered>>
    /\ UNCHANGED mediaVars
    /\ UNCHANGED <<inboundVars, cacheVars, sendVars, triggerVars>>

handleMessage == dispatchEvent(NotRecorded)

\* the same step, with the start of the round recorded in its history
handleMessageRecorded == dispatchEvent(nextId)

\* a fetch of the call f settles on its own (response or network error) and
\* notifyListener resumes; when it was the last one pending, Promise.all
\* resolves and dispatchEvent runs to its end in the same turn
fetchSettles(f, l, o) ==
    /\ ~crashed
    /\ f \in Frames
    /\ l \in f.pending
    /\ \E fa \in {recordOutcome(failedAttempts, l, o)} :
          resumeRound(inflight (-) OneFrame(f), f.pending \ {l}, f.atStart, fa,
                      streakAfter(streak, l, o))
    /\ everRecovered' = (everRecovered \/ (o = "success" /\ failedAttempts[l] = 2))
    /\ UNCHANGED <<nextId, crashed>>
    /\ UNCHANGED mediaVars
    /\ UNCHANGED <<inboundVars, cacheVars, sendVars, triggerVars>>

\* counters after every attempt in the set ls was aborted
RECURSIVE abortAll(_, _)
abortAll(fa, ls) ==
    IF ls = {} THEN fa
    ELSE LET l == CHOOSE x \in ls : TRUE
         IN abortAll(recordOutcome(fa, l, "aborted"), ls \ {l})

\* the 5 s timer of the call f fires: controller.abort() rejects every fetch
\* of the round that is still pending
deadlineFires(f) ==
    /\ ~crashed
    /\ f \in Frames
    /\ f.timer = "armed"
    /\ \E fa \in {abortAll(failedAttempts, f.pending)} :
          resumeRound(inflight (-) OneFrame(f), {}, f.atStart, fa,
                      [l \in Ids |-> IF l \in f.pending
                                     THEN Min(streak[l] + 1, FailureThreshold)
                                     ELSE streak[l]])
    /\ UNCHANGED <<nextId, crashed, everRecovered>>
    /\ UNCHANGED mediaVars
    /\ UNCHANGED <<inboundVars, cacheVars, sendVars, triggerVars>>

Next ==
    \/ \E u \in Urls : registerWebhook(u)
    \/ \E id \in PathIds : deleteWebhook(id)
    \/ handleMessage
    \/ \E f \in Frames, l \in Ids, o \in FetchOutcomes : fetchSettles(f, l, o)
    \/ \E f \in Frames : deadlineFires(f)

Spec == Init /\ [][Next]_vars

\* the same program with the start of every round on record
SnapshotNext ==
    \/ \E u \in Urls : registerWebhook(u)
    \/ \E id \in PathIds : deleteWebhook(id)
    \/ handleMessageRecorded
    \/ \E f \in Frames, l \in Ids, o \in FetchOutcomes : fetchSettles(f, l, o)
    \/ \E f \in Frames : deadlineFires(f)

SnapshotSpec == Init /\ [][SnapshotNext]_vars

TypeOK ==
    /\ nextId \in 0 .. MaxIds
    /\ Range(listeners) \subseteq Ids
    /\ crashed \in BOOLEAN
    /\ BagCardinality(inflight) <= MaxRounds
    /\ \A f \in Frames : f.pending \subseteq Ids /\ f.pending # {}
    /\ \A l \in Ids : failedAttempts[l] \in Nat

\* ------------------------------------------------- media store: actions
\* POST /media/upload -> Server.uploadMedia -> MediaHandler.saveUploadedMedia:
\* file.mv only starts the move; the record is registered and the id answered
\* in the same turn
uploadMedia(file, k) ==
    /\ ~crashed
    /\ IF uploadMediaStatus(file, k) # 201
       THEN UNCHANGED mediaVars
       ELSE /\ nextFile < MaxMedia
            /\ \E id \in {generateFileId} :
                  /\ mv' = [mv EXCEPT ![id] = "pending"]
                  /\ mediaCache' = [mediaCache EXCEPT ![id] = Record("userMedia")]
            /\ nextFile' = nextFile + 1
            /\ UNCHANGED <<disk, deletes, sweep, obtained>>
    /\ UNCHANGED <<eventVars, crashed>>
    /\ UNCHANGED <<inboundVars, cacheVars, sendVars, triggerVars>>

\* how the move started by file.mv can end
MvOutcomes == {"moved", "error"}

\* the move of an upload ends and the callback given to file.mv runs: on an
\* error it throws, outside every caller, and the exception ends the process
mvCompletes(id, o) ==
    /\ ~crashed
    /\ mv[id] = "pending"
    /\ IF o = "moved"
       THEN /\ disk' = disk \cup {Path("userMedia", id)}
            /\ mv' = [mv EXCEPT ![id] = "none"]
            /\ UNCHANGED crashed
       ELSE /\ mv' = [mv EXCEPT ![id] = "failed"]
            /\ crashed' = TRUE
            /\ UNCHANGED disk
    /\ UNCHANGED <<mediaCache, nextFile, deletes, sweep, obtained>>
    /\ UNCHANGED eventVars
    /\ UNCHANGED <<inboundVars, cacheVars, sendVars, triggerVars>>

\* how downloadMessageMedia can go: the file is written and registered, the
\* client has no data, the MIME type is not supported, or writeFile fails
DownloadOutcomes == {"saved", "no_data", "bad_mime", "write_failed"}

\* MediaHandler.downloadMessageMedia, seen from the store: the record is
\* registered in the continuation of a writeFile that succeeded; every other
\* outcome throws before line 161
downloadMessageMedia(o) ==
    /\ ~crashed
    /\ IF o # "saved"
       THEN UNCHANGED mediaVars
       ELSE /\ nextFile < MaxMedia
            /\ \E id \in {generateFileId} :
                  /\ disk' = disk \cup {Path("incoming", id)}
                  /\ mediaCache' = [mediaCache EXCEPT ![id] = Record("incoming")]
            /\ nextFile' = nextFile + 1
            /\ UNCHANGED <<mv, deletes, sweep, obtained>>
    /\ UNCHANGED <<eventVars, crashed>>
    /\ UNCHANGED <<inboundVars, cacheVars, sendVars, triggerVars>>

\* variant: a lookup refreshes the timestamp of the record it finds
recordAfterGetFilePath_touch(id) ==
    IF hasRecord(id) THEN [mediaCache[id] EXCEPT !.idle = 0] ELSE NoRecord

\* what getFilePath leaves in the cache: it reads the entry and writes nothing
recordAfterGetFilePath(id) == mediaCache[id]

\* MediaHandler.getFilePath called on its own
getFilePathCall(id) ==
    /\ ~crashed
    /\ mediaCache' = [mediaCache EXCEPT ![id] = recordAfterGetFilePath(id)]
    /\ UNCHANGED <<disk, nextFile, mv, deletes, sweep, obtained>>
    /\ UNCHANGED <<eventVars, crashed>>
    /\ UNCHANGED <<inboundVars, cacheVars, sendVars, triggerVars>>

\* parseMediaBody up to its return: "not_found" when the id has no record,
\* "read_error" when MessageMedia.fromFilePath cannot read the file, "media"
\* when the content was read
parseMediaBody(id) ==
    IF getFilePath(id) = NoPath THEN "not_found"
    ELSE IF getFilePath(id) \notin disk THEN "read_error"
    ELSE "media"

\* parseSendMessageRequest for a media body -> parseMediaBody: the content is
\* read and deleteFile is called without await; deleteFile runs up to its
\* `await unlink` with the record still in the cache
parseSendMessageRequest(id) ==
    /\ mediaCache' = [mediaCache EXCEPT ![id] = recordAfterGetFilePath(id)]
    /\ IF parseMediaBody(id) # "media"
       THEN UNCHANGED <<disk, nextFile, mv, deletes, sweep, obtained>>
       ELSE /\ BagCardinality(deletes) < MaxDeletes
            /\ obtained' = [obtained EXCEPT ![id] = Min(@ + 1, 2)]
            /\ deletes' = deletes (+) OneDelete(DeleteOp(id, getFilePath(id), "queued"))
            /\ UNCHANGED <<disk, nextFile, mv, sweep>>

\* POST /message with a media body, seen from the store: the client is ready
\* and what becomes of the message afterwards leaves the store alone
sendMedia(id) ==
    /\ ~crashed
    /\ parseSendMessageRequest(id)
    /\ UNCHANGED <<eventVars, crashed>>
    /\ UNCHANGED <<inboundVars, cacheVars, sendVars, triggerVars>>

\* variant: deleteFile goes on to the unlink without looking at the entry
deleteFileStart_unchecked(id) == "unlink"

\* deleteFile, lines 188-189: an id without a cache entry returns at once
deleteFileStart(id) == IF ~hasRecord(id) THEN "return" ELSE "unlink"

\* MediaHandler.deleteFile called on its own, up to its `await unlink`
deleteFile(id) ==
    /\ ~crashed
    /\ IF deleteFileStart(id) = "return"
       THEN UNCHANGED mediaVars
       ELSE /\ BagCardinality(deletes) < MaxDeletes
            /\ deletes' = deletes (+) OneDelete(DeleteOp(id, getFilePath(id), "queued"))
            /\ UNCHANGED <<mediaCache, disk, nextFile, mv, sweep, obtained>>
    /\ UNCHANGED <<eventVars, crashed>>
    /\ UNCHANGED <<inboundVars, cacheVars, sendVars, triggerVars>>

\* variant: without the catch block a failed unlink leaves deleteFile as an
\* error
deleteFileAfterUnlink_raise(o) == IF o = "error" THEN "raised" ELSE "settled"

\* deleteFile, lines 190-194: a failed unlink is caught and logged; the call
\* goes on to its finally block either way
deleteFileAfterUnlink(o) == "settled"

\* the thread pool runs the unlink of a suspended deleteFile call
unlinkRuns(d, o) ==
    /\ ~crashed
    /\ d \in Deletes
    /\ d.phase = "queued"
    /\ disk' = diskAfterUnlink(d.path, o)
    /\ deletes' = (deletes (-) OneDelete(d))
                      (+) OneDelete(DeleteOp(d.id, d.path, deleteFileAfterUnlink(o)))
    /\ UNCHANGED <<mediaCache, nextFile, mv, sweep, obtained>>
    /\ UNCHANGED <<eventVars, crashed>>
    /\ UNCHANGED <<inboundVars, cacheVars, sendVars, triggerVars>>

\* deleteFile resumes after its unlink: an error is logged, and the finally
\* block deletes the cache entry. Nobody awaits the promise of deleteFile: an
\* error leaving it would be an unhandled rejection
deleteFileResumes(d) ==
    /\ ~crashed
    /\ d \in Deletes
    /\ d.phase # "queued"
    /\ IF d.phase = "settled"
       THEN /\ mediaCache' = [mediaCache EXCEPT ![d.id] = NoRecord]
            /\ UNCHANGED crashed
       ELSE /\ crashed' = TRUE
            /\ UNCHANGED mediaCache
    /\ deletes' = deletes (-) OneDelete(d)
    /\ UNCHANGED <<disk, nextFile, mv, sweep, obtained>>
    /\ UNCHANGED eventVars
    /\ UNCHANGED <<inboundVars, cacheVars, sendVars, triggerVars>>

\* the interval timer calls deleteOldFiles: it takes the entries and `now`,
\* skips the entries that are not old and suspends at the unlink of the first
\* old one
deleteOldFiles ==
    /\ ~crashed
    /\ sweep.phase = "idle"
    /\ LET old == SelectSeq(entriesFrom(0), LAMBDA e : isOld(e.idle))
       IN sweep' = IF old = <<>> THEN NoSweep
                   ELSE [phase |-> "queued",
                         todo |-> [i \in 1 .. Len(old) |->
                                      [id |-> old[i].id, path |-> old[i].path]]]
    /\ UNCHANGED <<mediaCache, disk, nextFile, mv, deletes, obtained>>
    /\ UNCHANGED <<eventVars, crashed>>
    /\ UNCHANGED <<inboundVars, cacheVars, sendVars, triggerVars>>

\* variant: the cache entry is deleted inside the try block, so after a failed
\* unlink the sweep goes on to the next entry and leaves this one
sweepAfterUnlink_skipOnError(o) ==
    IF o # "error" THEN [sweep EXCEPT !.phase = "settled"]
    ELSE IF Tail(sweep.todo) = <<>> THEN NoSweep
    ELSE [phase |-> "queued", todo |-> Tail(sweep.todo)]

\* variant: without the catch block a failed unlink ends the sweep
sweepAfterUnlink_raise(o) ==
    IF o = "error" THEN NoSweep ELSE [sweep EXCEPT !.phase = "settled"]

\* deleteOldFiles, lines 45-49: a failed unlink is caught and logged, the
\* loop goes on to `delete this._mediaCache[fileId]` either way
sweepAfterUnlink(o) == [sweep EXCEPT !.phase = "settled"]

\* the thread pool runs the unlink deleteOldFiles is waiting for
sweepUnlinkRuns(o) ==
    /\ ~crashed
    /\ sweep.phase = "queued"
    /\ disk' = diskAfterUnlink(Head(sweep.todo).path, o)
    /\ sweep' = sweepAfterUnlink(o)
    /\ UNCHANGED <<mediaCache, nextFile, mv, deletes, obtained>>
    /\ UNCHANGED <<eventVars, crashed>>
    /\ UNCHANGED <<inboundVars, cacheVars, sendVars, triggerVars>>

\* variant: the loop reads the cache again after every eviction instead of
\* walking the entries it took at the start
sweepRest_live ==
    LET old == SelectSeq(entriesFrom(0),
                         LAMBDA e : isOld(e.idle) /\ e.id # Head(sweep.todo).id)
    IN [i \in 1 .. Len(old) |-> [id |-> old[i].id, path |-> old[i].path]]

\* deleteOldFiles, line 42: the loop walks the array Object.entries returned
\* when the call started; what is left of it after the current entry
sweepRest == Tail(sweep.todo)

\* deleteOldFiles resumes: it deletes the cache entry and goes on to the
\* unlink of the next old entry, or returns
sweepResumes ==
    /\ ~crashed
    /\ sweep.phase = "settled"
    /\ mediaCache' = [mediaCache EXCEPT ![Head(sweep.todo).id] = NoRecord]
    /\ sweep' = IF sweepRest = <<>> THEN NoSweep
                ELSE [phase |-> "queued", todo |-> sweepRest]
    /\ UNCHANGED <<disk, nextFile, mv, deletes, obtained>>
    /\ UNCHANGED <<eventVars, crashed>>
    /\ UNCHANGED <<inboundVars, cacheVars, sendVars, triggerVars>>

\* time passes: every record has been idle one interval longer
tick ==
    /\ ~crashed
    /\ mediaCache' = [i \in MediaIds |->
                         IF hasRecord(i)
                         THEN [mediaCache[i] EXCEPT !.idle = Min(@ + 1, MaxIdle)]
                         ELSE NoRecord]
    /\ UNCHANGED <<disk, nextFile, mv, deletes, sweep, obtained>>
    /\ UNCHANGED <<eventVars, crashed>>
    /\ UNCHANGED <<inboundVars, cacheVars, sendVars, triggerVars>>

\* the media store with uploads, downloads, send requests, the clock and
\* the sweep; the userMedia directory is in place. Uploads and downloads that
\* are rejected leave the store as it is: they are the stuttering steps here
\* and are inputs of SweepNext
MediaNext ==
    \/ uploadMedia("image/png", "ok")
    \/ \E id \in MediaIds, o \in MvOutcomes : mvCompletes(id, o)
    \/ downloadMessageMedia("saved")
    \/ \E id \in MediaIds : sendMedia(id)
    \/ \E d \in Deletes, o \in UnlinkOutcomes : unlinkRuns(d, o)
    \/ \E d \in Deletes : deleteFileResumes(d)
    \/ deleteOldFiles
    \/ \E o \in UnlinkOutcomes : sweepUnlinkRuns(o)
    \/ sweepResumes
    \/ tick

MediaSpec == Init /\ [][MediaNext]_vars

\* parseWhatsAppMessage for a message whose contact key is kc and whose chat
\* key is kh: a contact that is not cached is asked from the client and
\* saved; a chat that is not cached is asked from the client
conversion(kc, kh) ==
    /\ contacts' = IF cacheGet(contacts, kc) = "miss"
                   THEN [contacts EXCEPT ![kc] = 0] ELSE contacts
    /\ chats' = chats
    /\ fetched' = [kind \in Kinds |->
                      IF kind = "contact" /\ cacheGet(contacts, kc) = "miss"
                      THEN [fetched[kind] EXCEPT ![kc] = 0]
                      ELSE IF kind = "chat" /\ cacheGet(chats, kh) = "miss"
                      THEN [fetched[kind] EXCEPT ![kh] = 0]
                      ELSE fetched[kind]]
    /\ lastConv' = [contact |-> kc, chat |-> kh,
                    contactUpstream |-> cacheGet(contacts, kc) = "miss",
                    chatUpstream |-> cacheGet(chats, kh) = "miss"]

\* a message is converted on its own
parseWhatsAppMessage(kc, kh) ==
    /\ ~crashed
    /\ conversion(kc, kh)
    /\ UNCHANGED <<eventVars, crashed, mediaVars, inboundVars, sendVars, triggerVars>>

\* the checkperiod timer of NodeCache deletes the expired entries
checkExpired ==
    /\ ~crashed
    /\ contacts' = unexpired(contacts)
    /\ chats' = unexpired(chats)
    /\ UNCHANGED <<fetched, lastConv>>
    /\ UNCHANGED <<eventVars, crashed, mediaVars, inboundVars, sendVars, triggerVars>>

\* time passes for the caches
cacheTick ==
    /\ ~crashed
    /\ contacts' = older(contacts)
    /\ chats' = older(chats)
    /\ fetched' = [kind \in Kinds |-> older(fetched[kind])]
    /\ UNCHANGED lastConv
    /\ UNCHANGED <<eventVars, crashed, mediaVars, inboundVars, sendVars, triggerVars>>

CacheNext ==
    \/ \E kc, kh \in Keys : parseWhatsAppMessage(kc, kh)
    \/ checkExpired
    \/ cacheTick

CacheSpec == Init /\ [][CacheNext]_vars

\* WhatsApp.handleMessage for a message with media, after the conversion: it
\* sets msg.media to { saved: false, fileLocation: "" } and suspends inside
\* downloadMessageMedia at `await msg.downloadMedia()`
messageArrives ==
    /\ ~crashed
    /\ arrived < MaxMessages
    /\ BagCardinality(downloads) < MaxInbound
    /\ downloads' = downloads (+) OneDownload(Download("fetching", -1))
    /\ arrived' = arrived + 1
    /\ UNCHANGED <<lastEvent, dispatched>>
    /\ UNCHANGED <<eventVars, crashed, mediaVars, cacheVars, sendVars, triggerVars>>

\* msg.downloadMedia() settles and downloadMessageMedia runs up to its
\* `await writeFile`; without data or with an unsupported MIME type it
\* throws, handleMessage logs the error and its finally block dispatches
downloadMediaSettles(c, o) ==
    /\ ~crashed
    /\ c \in Downloads
    /\ c.phase = "fetching"
    /\ IF o = "data"
       THEN /\ nextFile < MaxMedia
            /\ downloads' = (downloads (-) OneDownload(c))
                                (+) OneDownload(Download("writing", generateFileId))
            /\ nextFile' = nextFile + 1
            /\ UNCHANGED <<lastEvent, dispatched>>
       ELSE /\ downloads' = downloads (-) OneDownload(c)
            /\ lastEvent' = [saved |-> mediaOf(c).saved, file |-> mediaOf(c).file,
                             phase |-> c.phase]
            /\ dispatched' = dispatched + dispatchesAfterDownload(c)
            /\ UNCHANGED nextFile
    /\ UNCHANGED arrived
    /\ UNCHANGED <<mediaCache, disk, mv, deletes, sweep, obtained>>
    /\ UNCHANGED <<eventVars, crashed, cacheVars, sendVars, triggerVars>>

\* the thread pool runs the write of a download: the file appears, or the
\* write fails
writeFileRuns(c, o) ==
    /\ ~crashed
    /\ c \in Downloads
    /\ c.phase = "writing"
    /\ disk' = IF o = "written" THEN disk \cup {Path("incoming", c.id)} ELSE disk
    /\ downloads' = (downloads (-) OneDownload(c)) (+) OneDownload(Download(o, c.id))
    /\ UNCHANGED <<mediaCache, nextFile, mv, deletes, sweep, obtained, lastEvent>>
    /\ UNCHANGED <<arrived, dispatched>>
    /\ UNCHANGED <<eventVars, crashed, cacheVars, sendVars, triggerVars>>

\* downloadMessageMedia resumes after writeFile: it registers the record and
\* returns, or throws; handleMessage fills in msg.media or logs the error, and
\* its finally block calls dispatchEvent, all in the same turn
downloadResumes(c) ==
    /\ ~crashed
    /\ c \in Downloads
    /\ c.phase \in WriteOutcomes
    /\ mediaCache' = cacheAfterDownload(c)
    /\ lastEvent' = [saved |-> mediaOf(c).saved, file |-> mediaOf(c).file,
                     phase |-> c.phase]
    /\ dispatched' = dispatched + dispatchesAfterDownload(c)
    /\ downloads' = downloads (-) OneDownload(c)
    /\ UNCHANGED arrived
    /\ UNCHANGED <<disk, nextFile, mv, deletes, sweep, obtained>>
    /\ UNCHANGED <<eventVars, crashed, cacheVars, sendVars, triggerVars>>

\* a message without media arrives: handleMessage converts it and calls
\* dispatchEvent in the same turn (line 82), then returns
plainMessageArrives ==
    /\ ~crashed
    /\ arrived < MaxMessages
    /\ arrived' = arrived + 1
    /\ dispatched' = dispatched + 1
    /\ lastEvent' = PlainEvent
    /\ UNCHANGED downloads
    /\ UNCHANGED <<eventVars, crashed, mediaVars, cacheVars, sendVars, triggerVars>>

\* inbound messages next to the clock and the sweep
InboundNext ==
    \/ messageArrives
    \/ plainMessageArrives
    \/ \E c \in Downloads, o \in FetchMediaOutcomes : downloadMediaSettles(c, o)
    \/ \E c \in Downloads, o \in WriteOutcomes : writeFileRuns(c, o)
    \/ \E c \in Downloads : downloadResumes(c)
    \/ deleteOldFiles
    \/ \E o \in UnlinkOutcomes : sweepUnlinkRuns(o)
    \/ sweepResumes
    \/ tick

InboundSpec == Init /\ [][InboundNext]_vars

\* the store of uploads as a component: any caller may call getFilePath and
\* deleteFile with any id, while time passes and the sweep runs
ConsumeNext ==
    \/ \E file \in Uploads : uploadMedia(file, "ok")
    \/ \E id \in MediaIds, o \in MvOutcomes : mvCompletes(id, o)
    \/ \E id \in MediaIds : getFilePathCall(id)
    \/ \E id \in MediaIds : deleteFile(id)
    \/ \E d \in Deletes, o \in UnlinkOutcomes : unlinkRuns(d, o)
    \/ \E d \in Deletes : deleteFileResumes(d)
    \/ deleteOldFiles
    \/ \E o \in UnlinkOutcomes : sweepUnlinkRuns(o)
    \/ sweepResumes
    \/ tick

ConsumeSpec == Init /\ [][ConsumeNext]_vars

\* the 'ready' event of the chat client
handleReady ==
    /\ ~crashed
    /\ ready' = TRUE
    /\ UNCHANGED <<sends, lastSend>>
    /\ UNCHANGED <<eventVars, crashed, mediaVars, inboundVars, cacheVars, triggerVars>>

\* POST /message with a media body naming id -> Server.sendMessage up to
\* `await this.wa.sendMessage(...)`: 503 while the client is not ready, 400
\* when the body does not parse, else the call waits for the client
sendMessage(id) ==
    /\ ~crashed
    /\ IF ~ready
       THEN /\ lastSend' = [id |-> id, status |-> 503]
            /\ UNCHANGED <<mediaVars, sends>>
       ELSE /\ parseSendMessageRequest(id)
            /\ IF parseMediaBody(id) # "media"
               THEN /\ lastSend' = [id |-> id, status |-> 400]
                    /\ UNCHANGED sends
               ELSE /\ BagCardinality(sends) < MaxSends
                    /\ sends' = sends (+) OneSend(id)
                    /\ UNCHANGED lastSend
    /\ UNCHANGED ready
    /\ UNCHANGED <<eventVars, crashed, inboundVars, cacheVars, triggerVars>>

\* wa.sendMessage settles and Server.sendMessage answers; WhatsApp.sendMessage
\* converts the message that was sent, with contact key kc and chat key kh
sendSettles(r, o, kc, kh) ==
    /\ ~crashed
    /\ r \in Sends
    /\ sends' = sends (-) SetToBag({r})
    /\ lastSend' = [id |-> r.id, status |-> sendMessageStatus(o)]
    /\ IF o = "sent" THEN conversion(kc, kh) ELSE UNCHANGED cacheVars
    /\ UNCHANGED ready
    /\ UNCHANGED <<eventVars, crashed, mediaVars, inboundVars, triggerVars>>

\* the send path: uploads, send requests, the chat client and the deleteFile
\* calls the requests start
SendNext ==
    \/ uploadMedia("image/png", "ok")
    \/ \E id \in MediaIds, o \in MvOutcomes : mvCompletes(id, o)
    \/ handleReady
    \/ \E id \in MediaIds : sendMessage(id)
    \/ \E r \in Sends, o \in SendOutcomes, kc, kh \in Keys : sendSettles(r, o, kc, kh)
    \/ \E d \in Deletes, o \in UnlinkOutcomes : unlinkRuns(d, o)
    \/ \E d \in Deletes : deleteFileResumes(d)

SendSpec == Init /\ [][SendNext]_vars

\* checkExists: the node looks for its url in the list GET /webhook returns
\* and stores the id of the listener it finds
webhookCheckExists ==
    /\ ~crashed
    /\ IF hasListener(NodeUrl)
       THEN /\ webhookId' = (CHOOSE l \in Range(getListeners) : url[l] = NodeUrl)
            /\ lastHook' = Hook("checkExists", "listed", "true")
       ELSE /\ lastHook' = Hook("checkExists", "not listed", "false")
            /\ UNCHANGED webhookId
    /\ UNCHANGED <<eventVars, crashed, mediaVars, inboundVars, cacheVars, sendVars>>

\* create: the node subscribes its url; a 409 makes the request helper throw
webhookCreate ==
    /\ ~crashed
    /\ registerWebhookRequest(NodeUrl)
    /\ IF registerWebhookStatus(NodeUrl) = 409
       THEN /\ lastHook' = Hook("create", "409", "throws")
            /\ UNCHANGED webhookId
       ELSE /\ webhookId' = addListener(NodeUrl)
            /\ lastHook' = Hook("create", "201", "true")
    /\ UNCHANGED <<mediaVars, inboundVars, cacheVars, sendVars>>

\* delete: without a stored id the node returns true; else it sends DELETE
\* /webhook/<id>, which the server answers with { success: true }
webhookDelete(answer) ==
    /\ ~crashed
    /\ IF webhookId = Undefined
       THEN /\ lastHook' = Hook("delete", "not asked", webhookDeleteResult(webhookId, answer))
            /\ UNCHANGED eventVars
       ELSE /\ lastHook' = Hook("delete", answer, webhookDeleteResult(webhookId, answer))
            /\ IF answer = "success"
               THEN deleteWebhookRequest(webhookId)
               ELSE UNCHANGED eventVars
    /\ UNCHANGED <<webhookId, crashed>>
    /\ UNCHANGED <<mediaVars, inboundVars, cacheVars, sendVars>>

\* the trigger node next to other clients of the webhook endpoints
TriggerNext ==
    \/ webhookCheckExists
    \/ webhookCreate
    \/ \E answer \in DeleteAnswers : webhookDelete(answer)
    \/ \E u \in Urls : registerWebhook(u)
    \/ \E id \in PathIds : deleteWebhook(id)

TriggerSpec == Init /\ [][TriggerNext]_vars

\* the store when no send request consumes a record: media is saved, time
\* passes and the sweep runs
SweepNext ==
    \/ \E file \in Uploads, k \in MkdirOutcomes : uploadMedia(file, k)
    \/ \E id \in MediaIds, o \in MvOutcomes : mvCompletes(id, o)
    \/ \E o \in DownloadOutcomes : downloadMessageMedia(o)
    \/ deleteOldFiles
    \/ \E o \in UnlinkOutcomes : sweepUnlinkRuns(o)
    \/ sweepResumes
    \/ tick

SweepSpec == Init /\ [][SweepNext]_vars

\* its scheduling: time passes, the interval timer set up by the constructor
\* keeps calling deleteOldFiles, the thread pool completes the unlink it was
\* given and the continuation of the await runs
SweepLiveSpec ==
    /\ SweepSpec
    /\ WF_vars(tick)
    /\ WF_vars(deleteOldFiles)
    /\ WF_vars(\E o \in UnlinkOutcomes : sweepUnlinkRuns(o))
    /\ WF_vars(sweepResumes)

MediaTypeOK ==
    /\ nextFile \in 0 .. MaxMedia
    /\ \A i \in MediaIds : mediaCache[i].idle \in 0 .. MaxIdle
    /\ BagCardinality(deletes) <= MaxDeletes
    /\ \A i \in MediaIds : mediaCache[i].dir \in {"none", "userMedia", "incoming"}
    /\ \A i \in MediaIds : mv[i] \in {"none", "pending", "failed"}
    /\ sweep.phase \in {"idle", "queued", "settled"}

\* ------------------------------------------------------------ properties
InList(l) == l \in Range(listeners)

RoundsInFlight == BagCardinality(inflight)

\* C1: a listener whose three most recent rounds all failed is pruned: it can
\* only still be listed while the round that recorded its third failure is
\* waiting for another listener, i.e. before that round's prune has run.
C1_PrunedAfterThreeFailedRounds ==
    \A l \in Ids :
        (InList(l) /\ streak[l] >= FailureThreshold)
            => \E f \in Frames : f.pending \ {l} # {}

C1_Witness ==
    /\ nextId = 1
    /\ listeners = <<>>
    /\ everPruned
    /\ inflight = EmptyBag

\* C2: every failed attempt (network error, timeout, or a non-success HTTP
\* response) adds exactly one to the listener's failure counter.
C2_FailureIncrements ==
    [][\A f \in Frames, l \in Ids :
          /\ \A o \in {"http_error", "network_error"} :
                (fetchSettles(f, l, o) /\ InList(l)')
                    => failedAttempts'[l] = failedAttempts[l] + 1
          /\ (deadlineFires(f) /\ l \in f.pending /\ InList(l)')
                    => failedAttempts'[l] = failedAttempts[l] + 1]_vars

\* this step records a failure (network error or abort) for listener l
FailsNow(l) ==
    \E f \in Frames :
        \/ fetchSettles(f, l, "network_error")
        \/ deadlineFires(f) /\ l \in f.pending

\* with this step, the three most recent attempts of l have failed
ThreeFailures(l) ==
    \/ streak[l] = FailureThreshold
    \/ streak[l] = FailureThreshold - 1 /\ FailsNow(l)

\* C3: a successful attempt sets the failure counter back to zero, so a
\* listener that recovered is pruned only after three fresh consecutive
\* failures.
C3_SuccessResets ==
    [][\A l \in Ids :
          /\ (\E f \in Frames : fetchSettles(f, l, "success"))
                => failedAttempts'[l] = 0
          /\ (everRecovered /\ InList(l) /\ ~InList(l)' /\ ~deleteWebhook(l))
                => (failedAttempts[l] >= FailureThreshold - 1 /\ ThreeFailures(l))]_vars

C3_Witness ==
    /\ nextId = 1
    /\ everRecovered
    /\ InList(0)
    /\ failedAttempts[0] = 2

\* C4: a dispatch round never rejects and never takes the process down,
\* whatever the listeners do.
C4_DispatchNeverRejects ==
    ~crashed /\ lastRound.how # "rejected"

\* C5: every dispatch round goes Idle -> Dispatching -> Pruning -> Idle: a
\* round that has ended has run the prune exactly once.
C5_EveryRoundPrunesOnce ==
    lastRound.how # "none" => (lastRound.how = "resolved" /\ lastRound.prunes = 1)

\* C6: every round ends within the deadline: an attempt that is still pending
\* is covered by the armed timer of its round.
C6_PendingAttemptHasDeadline ==
    /\ \A f \in Frames : f.timer = "armed"
    /\ lastRound.pending # {} => lastRound.timer = "armed"

\* C7: at most one dispatch round is in flight at any time.
C7_AtMostOneRoundInFlight ==
    RoundsInFlight <= 1

\* this step takes a dispatch round through its prune
RoundPrunes ==
    \/ RoundsInFlight' < RoundsInFlight
    \/ handleMessage /\ ~crashed' /\ RoundsInFlight' = RoundsInFlight

\* C8: within a round all counter updates come before the prune: when the
\* round prunes none of its attempts is pending and the prune has seen every
\* counter, so no listed listener is left at or above the threshold.
C8_OutcomesBeforePrune ==
    [][RoundPrunes =>
          /\ lastRound'.pending = {}
          /\ \A l \in Ids : InList(l)' => failedAttempts'[l] < FailureThreshold]_vars

C8_Witness ==
    /\ lastRound.how = "resolved"
    /\ lastRound.prunes = 1
    /\ inflight = EmptyBag
    /\ \E m \in Ids : InList(m) /\ failedAttempts[m] = 2

C10_PrunedOnlyAfterThreeFailures ==
    [][\A l \in Ids :
          (InList(l) /\ ~InList(l)') => (deleteWebhook(l) \/ ThreeFailures(l))]_vars

C10_Witness ==
    \E l, m \in Ids :
        /\ l # m
        /\ ~InList(l)
        /\ url[l] = NoUrl
        /\ l < nextId
        /\ everPruned
        /\ InList(m)
        /\ failedAttempts[m] \in {1, 2}

\* a listener with url u is registered
Registered(u) == \E l \in Ids : InList(l) /\ url[l] = u

\* a notifyListener call for l has not returned
Pending(l) == \E f \in Frames : l \in f.pending

\* C11: add(u) while a listener with url u is registered is rejected (-1, HTTP
\* 409) and changes nothing: list, counters and next id stay as they are and
\* exactly one listener has url u.
C11_DuplicateAddRejected ==
    [][\A u \in Urls :
          Registered(u) =>
              /\ addListener(u) = -1
              /\ registerWebhookStatus(u) = 409
              /\ registerWebhook(u) =>
                    /\ UNCHANGED <<listeners, nextId, url, failedAttempts>>
                    /\ Cardinality({i \in 1 .. Len(listeners') :
                                       url'[listeners'[i]] = u}) = 1]_vars

C11_Witness ==
    /\ ~crashed
    /\ nextId < MaxIds
    /\ \E l \in Ids : InList(l) /\ failedAttempts[l] = 2 /\ Registered(url[l])

\* C12: in every reachable state no two registered listeners have the same url.
C12_UrlsUnique ==
    \A i, j \in 1 .. Len(listeners) :
        i # j => url[listeners[i]] # url[listeners[j]]

C12_Witness ==
    \E f \in Frames :
        /\ 0 \in f.pending
        /\ ~InList(0)
        /\ InList(1)
        /\ url[0] = url[1]

\* C13: ids are strictly increasing in order of creation and never reused: a
\* successful add returns an id above every id handed out before, also after
\* removals and prunes, and the id source never goes back.
C13_IdsIncrease ==
    [][/\ nextId' >= nextId
       /\ \A l \in Ids : (InList(l) \/ Pending(l)) => l < nextId
       /\ \A u \in Urls :
             (registerWebhook(u) /\ Len(listeners') > Len(listeners))
                 => LET id == listeners'[Len(listeners')]
                    IN /\ \A l \in Ids : l < nextId => l < id
                       /\ id < nextId']_vars

C13_Witness ==
    /\ listeners = <<1>>
    /\ nextId = 2
    /\ url[0] = NoUrl

\* C14: remove(id) of an id that is not registered changes nothing and is
\* answered with success; remove(id) of a registered id takes exactly that
\* listener out and leaves every other listener, its counter and its place.
C14_RemoveExactlyOne ==
    [][\A id \in Ids :
          deleteWebhook(id) =>
              /\ deleteWebhookStatus(id) = 200
              /\ Range(listeners') = Range(listeners) \ {id}
              /\ listeners' = SelectSeq(listeners, LAMBDA l : l \in Range(listeners'))
              /\ \A l \in Range(listeners') :
                     failedAttempts'[l] = failedAttempts[l] /\ url'[l] = url[l]
              /\ ~InList(id) =>
                     UNCHANGED <<listeners, nextId, url, failedAttempts>>]_vars

C14_Witness ==
    /\ listeners = <<1>>
    /\ failedAttempts[1] = 2
    /\ url[0] = NoUrl
    /\ ~everPruned

\* C15: list() returns the registered listeners in insertion order, i.e. in
\* the order of their ids, after any sequence of add, remove and prune.
C15_ListInInsertionOrder ==
    /\ Len(getListeners) = Len(listeners)
    /\ Range(getListeners) = Range(listeners)
    /\ \A i, j \in 1 .. Len(getListeners) :
           i < j => getListeners[i] < getListeners[j]

C15_Witness ==
    /\ getListeners = <<0, 1>>
    /\ lastRound.how = "resolved"
    /\ failedAttempts[0] > 0

\* C16: the attempts of a round are independent: an outcome changes only the
\* counter of its own listener, and an attempt that fails leaves no other
\* attempt of its round pending without the deadline.
C16_AttemptsIndependent ==
    [][/\ \A f \in Frames, l \in Ids, o \in FetchOutcomes :
             fetchSettles(f, l, o)
                 => \A m \in Ids \ {l} :
                        InList(m)' => failedAttempts'[m] = failedAttempts[m]
       /\ (handleMessage /\ lastRound'.how = "rejected")
             => lastRound'.pending = {}]_vars

\* C17: every media record in the index has a file on disk at its recorded
\* path, from the moment its id is handed out.
C17_RecordHasFile ==
    \A id \in MediaIds : hasRecord(id) => getFilePath(id) \in disk

\* C18: when persisting the uploaded bytes fails, saveUpload fails: no record
\* is registered for the upload, so no id that resolves is handed out for it.
C18_FailedWriteFailsUpload ==
    \A id \in MediaIds :
        mv[id] = "failed" => (~hasRecord(id) /\ getFilePath(id) = NoPath)

\* C19: a media id is consumed exactly once by the send path: of the send
\* requests that name the same id at most one obtains the content.
C19_ConsumedOnce ==
    \A id \in MediaIds : obtained[id] <= 1

\* C20: once consume(id) has completed, resolve(id) is absent, and it stays
\* absent in every later state: the step in which a deleteFile call returns
\* leaves its id without a record, and no step registers a record under an id
\* that was handed out and has lost its record.
C20_ConsumedStaysAbsent ==
    [][/\ BagCardinality(deletes') < BagCardinality(deletes)
              => \A d \in Deletes :
                    (d.phase = "settled" /\ CopiesIn(d, deletes') < CopiesIn(d, deletes))
                        => mediaCache'[d.id] = NoRecord
       /\ mediaCache' # mediaCache
              => \A id \in MediaIds :
                    (id < nextFile /\ mediaCache[id] = NoRecord)
                        => mediaCache'[id] = NoRecord]_vars

C20_Witness ==
    /\ obtained[0] = 1
    /\ Path("userMedia", 0) \in disk
    /\ \A d \in Deletes : d.id # 0
    /\ getFilePath(0) = NoPath
    /\ hasRecord(1)

\* C21: an upload whose MIME type is not in the supported-type table fails with
\* the unsupported-type error and has no effect (no file, no record, no id
\* used up); the endpoint answers 400, while any other error of the save is
\* answered with 500.
C21_UnsupportedUploadRejected ==
    [][\A file \in Uploads \ {NoFile}, k \in MkdirOutcomes :
          /\ ~SupportedMime(file) =>
                /\ saveUploadedMedia(file, k) = Unsupported
                /\ uploadMediaStatus(file, k) = 400
                /\ uploadMedia(file, k) => UNCHANGED mediaVars
          /\ (SupportedMime(file) /\ saveUploadedMedia(file, k) # "saved") =>
                uploadMediaStatus(file, k) = 500]_vars

\* an unsupported upload arrives at a store that holds a record and its
\* file and could still take another upload
C21_Witness ==
    /\ ~crashed
    /\ nextFile = 1
    /\ hasRecord(0)
    /\ getFilePath(0) \in disk
    /\ mv[0] = "none"
    /\ mediaCache[0].idle = 0
    /\ sweep = NoSweep
    /\ deletes = EmptyBag

\* the ids deleteOldFiles has still to evict
SweepIds(sw) == {sw.todo[i].id : i \in 1 .. Len(sw.todo)}

\* C22: a sweep with threshold T selects for eviction no record idle for less
\* than T at the sweep's `now`, no record idle for exactly T, and every record
\* idle for more than T; the sweep removes only records it selected.
C22_SweepThreshold ==
    [][/\ deleteOldFiles =>
             \A id \in MediaIds :
                hasRecord(id) =>
                   /\ mediaCache[id].idle < FileClearInterval => id \notin SweepIds(sweep')
                   /\ mediaCache[id].idle = FileClearInterval => id \notin SweepIds(sweep')
                   /\ mediaCache[id].idle > FileClearInterval => id \in SweepIds(sweep')
       /\ sweepResumes =>
             \A id \in MediaIds :
                (hasRecord(id) /\ mediaCache'[id] = NoRecord) => id \in SweepIds(sweep)]_vars

\* a sweep has evicted record 0, which was never sent, and has kept record 1,
\* idle for exactly the interval
C22_Witness ==
    /\ nextFile = 2
    /\ ~hasRecord(0)
    /\ obtained[0] = 0
    /\ hasRecord(1)
    /\ mediaCache[1].idle = FileClearInterval
    /\ sweep = NoSweep

\* C23: while the process runs, every media record is eventually removed from
\* the index: a record that is never consumed is evicted by the periodic
\* sweep, also when the unlink of its file fails.
C23_EventuallyEvicted ==
    \A id \in MediaIds : hasRecord(id) ~> (~hasRecord(id) \/ crashed)

\* record 0 was never sent and is gone from the index while its file is
\* still on disk: the sweep evicted it although the unlink failed
C23_Witness ==
    /\ ~crashed
    /\ nextFile >= 1
    /\ obtained[0] = 0
    /\ ~hasRecord(0)
    /\ \E dir \in {"userMedia", "incoming"} : Path(dir, 0) \in disk
    /\ sweep = NoSweep

\* the deleteFile call d returns in this step
DeleteReturns(d) ==
    /\ d.phase # "queued"
    /\ CopiesIn(d, deletes') < CopiesIn(d, deletes)

\* C24: consume(id) never raises: no deleteFile call ends as an error, and
\* the step in which a call returns leaves the process running and the id
\* without a record, whether its unlink removed the file or failed.
C24_ConsumeNeverRaises ==
    [][/\ \A d \in Deletes : d.phase # "raised"
       /\ BagCardinality(deletes') < BagCardinality(deletes)
             => \A d \in Deletes :
                   DeleteReturns(d) => (~crashed' /\ getFilePath(d.id)' = NoPath)]_vars

\* a deleteFile call is about to resume after an unlink that failed: its
\* file is still there and so is its record
C24_Witness ==
    /\ ~crashed
    /\ \E d \in Deletes :
          /\ d.phase = "settled"
          /\ d.path \in disk
          /\ hasRecord(d.id)
          /\ mv[d.id] = "none"

\* C25: consume is idempotent: deleteFile(id) for an id that has no record
\* (never issued, already consumed or already evicted) changes neither the
\* index nor a file, starts no unlink and raises no error; a call that has
\* returned left its id without a record, so a second consume is such a call.
C25_ConsumeIdempotent ==
    [][/\ \A id \in MediaIds :
             (~hasRecord(id) /\ deleteFile(id)) =>
                 /\ mediaCache' = mediaCache
                 /\ disk' = disk
                 /\ deletes' = deletes
                 /\ ~crashed'
       /\ BagCardinality(deletes') < BagCardinality(deletes)
             => \A d \in Deletes : DeleteReturns(d) => deleteFileStart(d.id)' = "return"]_vars

\* id 0 was issued and consumed (its record and its file are gone, no call
\* is in flight), id 1 was never issued: deleteFile of either is a no-op
C25_Witness ==
    /\ ~crashed
    /\ nextFile = 1
    /\ ~hasRecord(0)
    /\ ~hasRecord(1)
    /\ disk = {}
    /\ deletes = EmptyBag
    /\ sweep = NoSweep
    /\ mv[0] = "none"

\* C26: sweep() never raises and evicts every entry it selected: after the
\* unlink of an entry, failed or not, the sweep still holds that entry and the
\* process runs; its next step removes the entry from the index and changes
\* no other record; selecting the entries changes no record.
C26_SweepNeverRaises ==
    [][/\ (sweep.phase = "queued" /\ sweep' # sweep) =>
             /\ sweep' = [sweep EXCEPT !.phase = "settled"]
             /\ mediaCache' = mediaCache
             /\ ~crashed'
       /\ (sweep.phase = "settled" /\ sweep' # sweep) =>
             /\ mediaCache'[Head(sweep.todo).id] = NoRecord
             /\ \A id \in MediaIds \ {Head(sweep.todo).id} :
                   mediaCache'[id] = mediaCache[id]
             /\ ~crashed'
       /\ (sweep.phase = "idle" /\ sweep' # sweep) =>
             /\ mediaCache' = mediaCache
             /\ ~crashed']_vars

\* a sweep has evicted the old record 0 although its unlink failed (the file
\* is still there) and has left the fresh record 1 as it was
C26_Witness ==
    /\ ~crashed
    /\ obtained[0] = 0
    /\ ~hasRecord(0)
    /\ \E dir \in {"userMedia", "incoming"} : Path(dir, 0) \in disk
    /\ hasRecord(1)
    /\ mediaCache[1].idle < FileClearInterval
    /\ getFilePath(1) \in disk
    /\ sweep = NoSweep

\* C27: resolve(id) is a pure, non-extending read: a getFilePath call changes
\* no record, no time stamp and no file, and no step makes a record younger,
\* so a lookup never postpones the sweep.
C27_ResolveIsPure ==
    [][/\ mediaCache' # mediaCache =>
             \A id \in MediaIds :
                (hasRecord(id) /\ mediaCache'[id] # NoRecord) =>
                    /\ mediaCache'[id].dir = mediaCache[id].dir
                    /\ mediaCache'[id].idle >= mediaCache[id].idle
       /\ \A id \in MediaIds :
             getFilePathCall(id) => (mediaCache' = mediaCache /\ disk' = disk)]_vars

\* record 0 can be looked up (its file is there, no call is removing it) and
\* is old all the same: the sweep in progress has selected it
C27_Witness ==
    /\ ~crashed
    /\ hasRecord(0)
    /\ getFilePath(0) \in disk
    /\ mediaCache[0].idle > FileClearInterval
    /\ sweep.phase = "queued"
    /\ Head(sweep.todo).id = 0
    /\ deletes = EmptyBag

\* the handleMessage call c reaches dispatchEvent in this step
Dispatches(c) ==
    /\ CopiesIn(c, downloads') < CopiesIn(c, downloads)
    /\ BagCardinality(downloads') < BagCardinality(downloads)

\* C28: an inbound media event reaches the dispatcher only when its download
\* is over (it returned or threw; never while the file is being written); an
\* event dispatched with saved = true names a file that is on disk and
\* registered in the index at that moment, and after a failed download the
\* event has saved = false and an empty path.
C28_DispatchAfterDownload ==
    [][downloads' # downloads =>
          \A c \in Downloads :
             /\ (c.phase = "writing" /\ CopiesIn(c, downloads') < CopiesIn(c, downloads))
                   => BagCardinality(downloads') = BagCardinality(downloads)
             /\ Dispatches(c) =>
                   /\ lastEvent'.phase = c.phase
                   /\ lastEvent'.saved <=> c.phase = "written"
                   /\ lastEvent'.saved =>
                         /\ lastEvent'.file \in MediaIds
                         /\ mediaCache'[lastEvent'.file] # NoRecord
                         /\ Path("incoming", lastEvent'.file) \in disk'
                   /\ ~lastEvent'.saved => lastEvent'.file = -1]_vars

\* the event of file 0 was dispatched as saved while another inbound message
\* is still being written
C28_Witness ==
    /\ lastEvent = [saved |-> TRUE, file |-> 0, phase |-> "written"]
    /\ hasRecord(0)
    /\ \E c \in Downloads : c.phase = "writing" /\ c.id = 1

\* C29: a download registers a record only after its file was written: the
\* step that adds a record for a downloaded file finds the file on disk, and a
\* download that fails (no data, unsupported MIME type, failed write) ends
\* with an unsaved event and leaves the index as it was.
C29_RecordOnlyAfterWrite ==
    [][/\ mediaCache' # mediaCache =>
             \A id \in MediaIds :
                (~hasRecord(id) /\ mediaCache'[id] # NoRecord) =>
                    /\ Path("incoming", id) \in disk
                    /\ Download("written", id) \in Downloads
       /\ downloads' # downloads =>
             \A c \in Downloads :
                (Dispatches(c) /\ c.phase # "written") =>
                    /\ mediaCache' = mediaCache
                    /\ ~lastEvent'.saved]_vars

\* the write of the only download failed: its event went out unsaved, file id
\* 0 was used up, and there is neither a record nor a file
C29_Witness ==
    /\ lastEvent = [saved |-> FALSE, file |-> -1, phase |-> "failed"]
    /\ nextFile = 1
    /\ ~hasRecord(0)
    /\ disk = {}
    /\ downloads = EmptyBag

\* the upstream client answered a lookup of this kind for k within the window
RecentlyFetched(kind, k) ==
    fetched[kind][k] # Absent /\ fetched[kind][k] <= StdTTL

\* C30: contact and chat lookups are read-through: a conversion whose contact
\* (chat) was resolved from the upstream client within the window does not
\* ask the client for it again, and one whose contact (chat) was not resolved
\* within the window does.
C30_ReadThrough ==
    [][\A kc, kh \in Keys :
          parseWhatsAppMessage(kc, kh) =>
              /\ lastConv'.contactUpstream <=> ~RecentlyFetched("contact", kc)
              /\ lastConv'.chatUpstream <=> ~RecentlyFetched("chat", kh)]_vars

\* the contact half of C30 on its own
C30_ContactReadThrough ==
    [][\A kc, kh \in Keys :
          parseWhatsAppMessage(kc, kh) =>
              (lastConv'.contactUpstream <=> ~RecentlyFetched("contact", kc))]_vars

\* C31: whenever no dispatch round is in flight every registered listener has
\* a failure counter in 0..2, and in every reachable state, also during rounds
\* and when rounds overlap, no registered listener's counter exceeds 3.
C31_CounterBounded ==
    /\ inflight = EmptyBag
          => \A l \in Ids : InList(l) => failedAttempts[l] \in 0 .. (FailureThreshold - 1)
    /\ \A l \in Ids : InList(l) => failedAttempts[l] <= FailureThreshold

\* the part of C31 that holds: the counters between rounds
C31_IdleCounters ==
    inflight = EmptyBag
        => \A l \in Ids : InList(l) => failedAttempts[l] \in 0 .. (FailureThreshold - 1)

\* this step resumes the dispatchEvent call f: one of its attempts settles or
\* its deadline fires
RoundSteps(f) ==
    \/ \E l \in Ids, o \in FetchOutcomes : fetchSettles(f, l, o)
    \/ deadlineFires(f)

\* the listeners added since the call f took its snapshot of the list
AddedSince(f) == {l \in Ids : f.atStart <= l /\ l < nextId}

\* C32: a round works on the list as it is when the round starts: a listener
\* added while the round is in flight gets no attempt in that round, its
\* counter is not changed by that round, and that round's prune does not
\* remove it.
C32_RoundUsesSnapshot ==
    [][\A f \in Frames :
          /\ f.pending \cap AddedSince(f) = {}
          /\ RoundSteps(f) =>
                \A m \in AddedSince(f) :
                    InList(m) => /\ InList(m)'
                                 /\ failedAttempts'[m] = failedAttempts[m]]_vars

\* the parts of C32 that hold: no attempt for, and no counter change of, a
\* listener added during the round
C32_NoLateAttempt ==
    [][\A f \in Frames :
          /\ f.pending \cap AddedSince(f) = {}
          /\ RoundSteps(f) =>
                \A m \in AddedSince(f) :
                    (InList(m) /\ InList(m)') => failedAttempts'[m] = failedAttempts[m]]_vars

\* the listener l was created and is no longer registered
Gone(l) == l < nextId /\ ~InList(l)

\* the notifyListener calls for l that have not returned
Attempts(l) ==
    BagCardinality([f \in {g \in Frames : l \in g.pending} |-> inflight[f]])

\* C33: a listener removed while a round is in flight stays removed: no step,
\* and in particular neither the outcome of the attempt already issued to it
\* nor the round's prune, puts it back on the list, and a step that settles
\* an attempt issued to it (response, network error or abort at the deadline)
\* changes the counter of no registered listener but those whose own attempt
\* it settles.
C33_RemovedStaysRemoved ==
    [][\A l \in Ids :
          /\ Gone(l) => ~InList(l)'
          /\ (Gone(l) /\ Attempts(l)' < Attempts(l))
                => \A m \in Ids :
                      (InList(m)' /\ Attempts(m)' = Attempts(m))
                          => failedAttempts'[m] = failedAttempts[m]]_vars

C33_Witness ==
    /\ ~everPruned
    /\ ~crashed
    /\ \E f \in Frames : 0 \in f.pending
    /\ Gone(0)
    /\ InList(1)
    /\ failedAttempts[1] = 2

\* C34: add(u) for a url that is not registered (any more, after a prune or a
\* removal) succeeds: it appends a listener with a new id above every id
\* handed out so far and counter 0, and the outcome of an attempt issued to a
\* former listener leaves the counter of every registered listener, the new
\* one with the same url included, as it is.
C34_ResubscribeIsFresh ==
    [][/\ \A u \in Urls :
             (/\ ~Registered(u)
              /\ nextId' # nextId \/ Len(listeners') > Len(listeners)
              /\ registerWebhook(u))
                 => /\ registerWebhookStatus(u) = 201
                    /\ listeners' = Append(listeners, nextId)
                    /\ \A l \in Ids : (InList(l) \/ Pending(l)) => l < nextId
                    /\ url'[nextId] = u
                    /\ failedAttempts'[nextId] = 0
       /\ \A l \in Ids :
             (~InList(l) /\ Attempts(l)' < Attempts(l))
                 => \A m \in Ids :
                       (InList(m) /\ url[m] = url[l])
                           => /\ l < m
                              /\ (InList(m)' /\ Attempts(m)' = Attempts(m))
                                    => failedAttempts'[m] = failedAttempts[m]]_vars

C34_Witness ==
    /\ everPruned
    /\ ~crashed
    /\ Pending(0)
    /\ ~InList(0)
    /\ listeners = <<1>>
    /\ url[1] = url[0]
    /\ failedAttempts[0] >= FailureThreshold
    /\ failedAttempts[1] = 0

\* C35: a sweep interleaved at its unlinks with uploads, downloads and send
\* requests evicts only records that were old when it started: its worklist
\* never grows and holds only ids handed out before whose records, if still
\* there, are old; a record created meanwhile gets a fresh id outside the
\* worklist; and when a sweep and a deleteFile call work on the same id both
\* return without an error and each leaves the id without a record.
C35_SweepInterleaves ==
    [][/\ (sweep' # sweep \/ mediaCache' # mediaCache) =>
             \A id \in SweepIds(sweep') :
                /\ id < nextFile'
                /\ hasRecord(id)' => isOld(mediaCache'[id].idle)
       /\ (sweep' # sweep /\ sweep.phase # "idle")
             => SweepIds(sweep') \subseteq SweepIds(sweep)
       /\ mediaCache' # mediaCache =>
             \A id \in MediaIds :
                /\ (~hasRecord(id) /\ hasRecord(id)')
                       => (id = nextFile /\ id \notin SweepIds(sweep))
                /\ (hasRecord(id) /\ ~hasRecord(id)' /\ sweep' # sweep)
                       => (id = Head(sweep.todo).id /\ isOld(mediaCache[id].idle))
       /\ (sweep.phase = "settled" /\ sweep' # sweep)
             => (~crashed' /\ mediaCache'[Head(sweep.todo).id] = NoRecord)
       /\ BagCardinality(deletes') < BagCardinality(deletes)
             => \A d \in Deletes :
                   (DeleteReturns(d) /\ d.id \in SweepIds(sweep))
                       => (~crashed' /\ ~hasRecord(d.id)')]_vars

\* the sweep and a deleteFile call have both had the unlink of record 0 run
\* and are about to resume, while the upload that created record 1 is still
\* moving its file
C35_Witness ==
    /\ ~crashed
    /\ sweep.phase = "settled"
    /\ Head(sweep.todo).id = 0
    /\ \E d \in Deletes : d.id = 0 /\ d.phase = "settled"
    /\ hasRecord(0)
    /\ hasRecord(1)
    /\ mv[1] = "pending"
    /\ mediaCache[1].idle = 0

\* C36: every inbound message that was converted is dispatched exactly once:
\* the dispatches made and the downloads still in progress add up to the
\* messages converted; a message without media is dispatched in the step it
\* arrives, a message with media not then but in the step its download
\* attempt ends, whether it ended with a file, without data or with an error.
C36_OneDispatchPerMessage ==
    [][/\ dispatched' + BagCardinality(downloads') = arrived'
       /\ arrived' # arrived =>
             /\ arrived' = arrived + 1
             /\ downloads' = downloads
                   => (dispatched' = dispatched + 1 /\ lastEvent' = PlainEvent)
             /\ downloads' # downloads
                   => (dispatched' = dispatched /\ lastEvent' = lastEvent)
       /\ (dispatched' # dispatched /\ arrived' = arrived) =>
             /\ dispatched' = dispatched + 1
             /\ \E c \in Downloads :
                   /\ Dispatches(c)
                   /\ c.phase \in {"fetching", "written", "failed"}
                   /\ lastEvent'.phase = c.phase]_vars

\* three messages were converted: one is still writing its file, two were
\* dispatched, the last of them after a download that ended without data
C36_Witness ==
    /\ ~crashed
    /\ arrived = 3
    /\ dispatched = 2
    /\ lastEvent.phase = "fetching"
    /\ \E c \in Downloads : c.phase = "writing"

\* the send request for media id is answered in this step with a failure of
\* the chat client (404 or 500)
SendFails(id) ==
    /\ BagCardinality(sends') < BagCardinality(sends)
    /\ lastSend'.id = id
    /\ lastSend'.status \in {404, 500}

\* C37: the send path consumes the media when the request is parsed, before
\* the message is sent: a request that meets a client that is not ready is
\* answered 503 and leaves the store alone; a request that parses starts the
\* deleteFile call in the step in which it starts to wait for the client; and
\* when the send then fails the id is gone, so that a retry with the same
\* mediaId is rejected as not found.
C37_ConsumedBeforeSend ==
    [][\A id \in MediaIds :
          /\ (sendMessage(id) /\ ~ready) =>
                /\ lastSend' = [id |-> id, status |-> 503]
                /\ UNCHANGED mediaVars
                /\ sends' = sends
          /\ (sendMessage(id) /\ ready /\ parseMediaBody(id) = "media") =>
                /\ sends' = sends (+) OneSend(id)
                /\ deletes' = deletes (+) OneDelete(DeleteOp(id, getFilePath(id), "queued"))
          /\ SendFails(id) => parseMediaBody(id)' = "not_found"]_vars

\* the parts of C37 that hold: nothing is consumed on 503, the deleteFile call
\* starts with the parse, and when the send fails the id is gone or the
\* deleteFile call that will remove it is still in flight
C37_ConsumeStartsAtParse ==
    [][\A id \in MediaIds :
          /\ (sendMessage(id) /\ ~ready) =>
                /\ lastSend' = [id |-> id, status |-> 503]
                /\ UNCHANGED mediaVars
                /\ sends' = sends
          /\ (sendMessage(id) /\ ready /\ parseMediaBody(id) = "media") =>
                /\ sends' = sends (+) OneSend(id)
                /\ deletes' = deletes (+) OneDelete(DeleteOp(id, getFilePath(id), "queued"))
          /\ SendFails(id) =>
                \/ parseMediaBody(id)' = "not_found"
                \/ \E d \in BagToSet(deletes') : d.id = id]_vars

\* C38: the delete method of the trigger node returns true when no webhook id
\* is stored or when the server reports that the deletion succeeded, and
\* false only when the deletion on the server did not succeed.
C38_DeleteReportsSuccess ==
    lastHook.op = "delete" =>
        /\ lastHook.server \in {"not asked", "success"} => lastHook.result = "true"
        /\ lastHook.result = "false" => lastHook.server \notin {"not asked", "success"}

\* the part of C38 that holds: without a stored id delete returns true and
\* sends no request
C38_DeleteWithoutId ==
    (lastHook.op = "delete" /\ lastHook.server = "not asked") => lastHook.result = "true"

====
